---- MODULE Spec2Model ----
(***************************************************************************)
(* VaR / CVaR engine of student_t_var_cvar (src/risk_metrics.py) and the   *)
(* VaR overlay of src/visualization.py, over IEEE-754 binary64 arithmetic. *)
(*                                                                         *)
(* A Python float (and the numpy float64 that scipy returns) is a binary64 *)
(* number.  It is modelled exactly: a finite value is sign * m * 2^e with  *)
(* m an arbitrary-size natural kept as a little-endian sequence of limbs,  *)
(* every arithmetic operation computes the exact result and rounds it to   *)
(* nearest, ties to even, with gradual underflow and overflow to infinity. *)
(***************************************************************************)
EXTENDS Integers, Sequences, FiniteSets, TLC

\* ------------------------------------------------------------------------
\* Natural numbers of arbitrary size: little-endian limbs, no high zero limb
\* ------------------------------------------------------------------------
LimbBits == 14
Base == 2^LimbBits

RECURSIVE BNStrip(_)
BNStrip(a) ==
  IF a = <<>> THEN <<>>
  ELSE IF a[Len(a)] = 0 THEN BNStrip(SubSeq(a, 1, Len(a) - 1))
  ELSE a

RECURSIVE BNAddC(_, _, _)
BNAddC(a, b, c) ==
  IF a = <<>> /\ b = <<>> THEN (IF c = 0 THEN <<>> ELSE <<c>>)
  ELSE LET x == (IF a = <<>> THEN 0 ELSE Head(a))
                + (IF b = <<>> THEN 0 ELSE Head(b)) + c
       IN  <<x % Base>> \o BNAddC(IF a = <<>> THEN <<>> ELSE Tail(a),
                                  IF b = <<>> THEN <<>> ELSE Tail(b),
                                  x \div Base)

BNAdd(a, b) == BNAddC(a, b, 0)

\* a - b for a >= b
RECURSIVE BNSubB(_, _, _)
BNSubB(a, b, br) ==
  IF a = <<>> THEN <<>>
  ELSE LET x == Head(a) - (IF b = <<>> THEN 0 ELSE Head(b)) - br
       IN  <<x % Base>> \o BNSubB(Tail(a),
                                  IF b = <<>> THEN <<>> ELSE Tail(b),
                                  IF x < 0 THEN 1 ELSE 0)

BNSub(a, b) == BNStrip(BNSubB(a, b, 0))

\* -1, 0, 1 as a < b, a = b, a > b
RECURSIVE BNCmpFrom(_, _, _)
BNCmpFrom(a, b, i) ==
  IF i = 0 THEN 0
  ELSE IF a[i] < b[i] THEN -1
  ELSE IF a[i] > b[i] THEN 1
  ELSE BNCmpFrom(a, b, i - 1)

BNCmp(a, b) ==
  IF Len(a) < Len(b) THEN -1
  ELSE IF Len(a) > Len(b) THEN 1
  ELSE BNCmpFrom(a, b, Len(a))

\* a * d + c for a limb d
RECURSIVE BNMulSmall(_, _, _)
BNMulSmall(a, d, c) ==
  IF a = <<>> THEN (IF c = 0 THEN <<>> ELSE <<c>>)
  ELSE LET x == Head(a) * d + c
       IN  <<x % Base>> \o BNMulSmall(Tail(a), d, x \div Base)

RECURSIVE BNMulR(_, _)
BNMulR(a, b) ==
  IF b = <<>> THEN <<>>
  ELSE BNAdd(BNMulSmall(a, Head(b), 0), <<0>> \o BNMulR(a, Tail(b)))

BNMul(a, b) == BNStrip(BNMulR(a, b))

Zeros(w) == [i \in 1..w |-> 0]

\* a * 2^n
BNShl(a, n) ==
  IF a = <<>> THEN <<>>
  ELSE Zeros(n \div LimbBits) \o BNMulSmall(a, 2^(n % LimbBits), 0)

\* floor(a / d) for a limb d, from the high limb down with the running remainder
RECURSIVE BNDivSmallFrom(_, _, _, _)
BNDivSmallFrom(a, d, i, r) ==
  IF i = 0 THEN <<>>
  ELSE LET x == r * Base + a[i]
       IN  BNDivSmallFrom(a, d, i - 1, x % d) \o <<x \div d>>

BNDivSmall(a, d) == BNStrip(BNDivSmallFrom(a, d, Len(a), 0))

\* floor(a / 2^n)
BNShr(a, n) ==
  LET w == n \div LimbBits
  IN  IF w >= Len(a) THEN <<>>
      ELSE BNDivSmall(SubSeq(a, w + 1, Len(a)), 2^(n % LimbBits))

\* a mod 2^n
BNLow(a, n) ==
  LET w == n \div LimbBits
      r == n % LimbBits
  IN  IF w >= Len(a) THEN a
      ELSE BNStrip(SubSeq(a, 1, w) \o <<a[w + 1] % (2^r)>>)

RECURSIVE IntBitLen(_)
IntBitLen(n) == IF n = 0 THEN 0 ELSE 1 + IntBitLen(n \div 2)

BNBitLen(a) ==
  IF a = <<>> THEN 0 ELSE LimbBits * (Len(a) - 1) + IntBitLen(a[Len(a)])

BNOdd(a) == a # <<>> /\ a[1] % 2 = 1

\* The greatest d in lo..hi with d * b <= r (bisection), given lo * b <= r
RECURSIVE BNDigit(_, _, _, _)
BNDigit(r, b, lo, hi) ==
  IF lo = hi THEN lo
  ELSE LET mid == (lo + hi + 1) \div 2
       IN  IF BNCmp(BNMulSmall(b, mid, 0), r) <= 0
           THEN BNDigit(r, b, mid, hi)
           ELSE BNDigit(r, b, lo, mid - 1)

\* Long division of the limbs i..Len(a) of a by b, one limb at a time from the
\* high limb down: <<quotient limbs (low first), remainder>>
RECURSIVE BNDivModFrom(_, _, _)
BNDivModFrom(a, b, i) ==
  IF i > Len(a) THEN << <<>>, <<>> >>
  ELSE LET hi == BNDivModFrom(a, b, i + 1)
           r  == BNStrip(<<a[i]>> \o hi[2])
           d  == BNDigit(r, b, 0, Base - 1)
       IN  << <<d>> \o hi[1], BNSub(r, BNMulSmall(b, d, 0)) >>

\* <<floor(a / b), a mod b>> for b > 0
BNDivMod(a, b) ==
  LET qr == BNDivModFrom(a, b, 1) IN <<BNStrip(qr[1]), qr[2]>>

\* ------------------------------------------------------------------------
\* IEEE-754 binary64: the Python float / numpy.float64 of the signatures
\* ------------------------------------------------------------------------
\* Significand precision in bits, and the least and greatest exponent of the
\* unit in the last place (2^-1074 is the least subnormal, the greatest finite
\* value is (2^53 - 1) * 2^971).
Prec == 53
QMin == -1074
QMax == 971

Max(a, b) == IF a >= b THEN a ELSE b
Min(a, b) == IF a <= b THEN a ELSE b

NaN == [k |-> "nan", s |-> 0, m |-> <<>>, e |-> 0]
Inf(s) == [k |-> "inf", s |-> s, m |-> <<>>, e |-> 0]
Zero(s) == [k |-> "fin", s |-> s, m |-> <<>>, e |-> 0]
Fin(s, m, e) == [k |-> "fin", s |-> s, m |-> m, e |-> e]

IsNaN(a) == a.k = "nan"
IsInf(a) == a.k = "inf"
IsFinite(a) == a.k = "fin"
IsZero(a) == a.k = "fin" /\ a.m = <<>>
Xor(s, t) == (s + t) % 2

\* The binary64 nearest to (-1)^s * m * 2^e, ties to even.
Round(s, m, e) ==
  IF m = <<>> THEN Zero(s)
  ELSE
    LET L  == BNBitLen(m)
        qe == Max(e + L - Prec, QMin)
    IN  IF qe <= e
        THEN (IF qe > QMax THEN Inf(s) ELSE Fin(s, BNShl(m, e - qe), qe))
        ELSE
          LET sh   == qe - e
              q    == BNShr(m, sh)
              c    == BNCmp(BNLow(m, sh), BNShl(<<1>>, sh - 1))
              up   == c > 0 \/ (c = 0 /\ BNOdd(q))
              q2   == IF up THEN BNAdd(q, <<1>>) ELSE q
              over == BNBitLen(q2) > Prec
              m3   == IF over THEN BNShr(q2, 1) ELSE q2
              e3   == IF over THEN qe + 1 ELSE qe
          IN  IF m3 = <<>> THEN Zero(s)
              ELSE IF e3 > QMax THEN Inf(s)
              ELSE Fin(s, m3, e3)

FNeg(a) == IF IsNaN(a) THEN NaN ELSE [a EXCEPT !.s = 1 - a.s]

FMul(a, b) ==
  IF IsNaN(a) \/ IsNaN(b) THEN NaN
  ELSE IF IsInf(a) \/ IsInf(b)
       THEN (IF IsZero(a) \/ IsZero(b) THEN NaN ELSE Inf(Xor(a.s, b.s)))
  ELSE Round(Xor(a.s, b.s), BNMul(a.m, b.m), a.e + b.e)

FAdd(a, b) ==
  IF IsNaN(a) \/ IsNaN(b) THEN NaN
  ELSE IF IsInf(a) THEN (IF IsInf(b) /\ b.s # a.s THEN NaN ELSE a)
  ELSE IF IsInf(b) THEN b
  ELSE IF IsZero(a) /\ IsZero(b) THEN (IF a.s = 1 /\ b.s = 1 THEN Zero(1) ELSE Zero(0))
  ELSE IF IsZero(a) THEN b
  ELSE IF IsZero(b) THEN a
  \* an operand below an eighth of the other's last place cannot change the sum
  ELSE IF (a.e + BNBitLen(a.m)) - (b.e + BNBitLen(b.m)) > Prec + 2 THEN a
  ELSE IF (b.e + BNBitLen(b.m)) - (a.e + BNBitLen(a.m)) > Prec + 2 THEN b
  ELSE
    LET e  == Min(a.e, b.e)
        ma == BNShl(a.m, a.e - e)
        mb == BNShl(b.m, b.e - e)
        c  == BNCmp(ma, mb)
    IN  IF a.s = b.s THEN Round(a.s, BNAdd(ma, mb), e)
        ELSE IF c = 0 THEN Zero(0)
        ELSE IF c > 0 THEN Round(a.s, BNSub(ma, mb), e)
        ELSE Round(b.s, BNSub(mb, ma), e)

FSub(a, b) == FAdd(a, FNeg(b))

\* numpy's float64 division: x / 0 is an infinity (or nan for 0 / 0) and a
\* RuntimeWarning, never an exception.
FDiv(a, b) ==
  IF IsNaN(a) \/ IsNaN(b) THEN NaN
  ELSE IF IsInf(a) THEN (IF IsInf(b) THEN NaN ELSE Inf(Xor(a.s, b.s)))
  ELSE IF IsInf(b) THEN Zero(Xor(a.s, b.s))
  ELSE IF IsZero(b) THEN (IF IsZero(a) THEN NaN ELSE Inf(Xor(a.s, b.s)))
  ELSE IF IsZero(a) THEN Zero(Xor(a.s, b.s))
  ELSE
    LET sh == Max(0, Prec + 3 + BNBitLen(b.m) - BNBitLen(a.m))
        qr == BNDivMod(BNShl(a.m, sh), b.m)
        \* one more low bit, set when the division is inexact
        m  == BNAddC(BNShl(qr[1], 1), <<>>, IF qr[2] = <<>> THEN 0 ELSE 1)
    IN  Round(Xor(a.s, b.s), m, a.e - b.e - sh - 1)

\* Order of two numbers that are not nan: -1, 0, 1
MagCmp(a, b) ==
  IF IsZero(a) THEN (IF IsZero(b) THEN 0 ELSE -1)
  ELSE IF IsZero(b) THEN 1
  ELSE LET ta == a.e + BNBitLen(a.m)
           tb == b.e + BNBitLen(b.m)
           e  == Min(a.e, b.e)
       IN  IF ta < tb THEN -1
           ELSE IF ta > tb THEN 1
           ELSE BNCmp(BNShl(a.m, a.e - e), BNShl(b.m, b.e - e))

FCmp(a, b) ==
  IF IsZero(a) /\ IsZero(b) THEN 0
  ELSE IF a.s # b.s THEN (IF a.s = 1 THEN -1 ELSE 1)
  ELSE LET c == IF IsInf(a) THEN (IF IsInf(b) THEN 0 ELSE 1)
                ELSE IF IsInf(b) THEN -1
                ELSE MagCmp(a, b)
       IN  IF a.s = 1 THEN 0 - c ELSE c

\* Python's <, <=, == on floats: every comparison with nan is False
FLt(a, b) == ~IsNaN(a) /\ ~IsNaN(b) /\ FCmp(a, b) < 0
FLe(a, b) == ~IsNaN(a) /\ ~IsNaN(b) /\ FCmp(a, b) <= 0
FEq(a, b) == ~IsNaN(a) /\ ~IsNaN(b) /\ FCmp(a, b) = 0

\* ------------------------------------------------------------------------
\* Argument values (binary64 literals; the comment gives Python's repr)
\* ------------------------------------------------------------------------
\* 1.0
One == Fin(0, <<0, 0, 0, 1024>>, -52)
\* -1.0
MinusOne == Fin(1, <<0, 0, 0, 1024>>, -52)
\* 2.0
Two == Fin(0, <<0, 0, 0, 1024>>, -51)
\* 3.0
Three == Fin(0, <<0, 0, 0, 1536>>, -51)
\* 0.001
F0_001 == Fin(0, <<10748, 3014, 9437, 1048>>, -62)
\* 0.1
F0_1 == Fin(0, <<6554, 9830, 6553, 1638>>, -56)
\* 1e-17
F1em17 == Fin(0, <<5271, 6427, 12116, 1475>>, -109)
\* 1.5
F1_5 == Fin(0, <<0, 0, 0, 1536>>, -52)
\* 2.220446049250313e-16  (2^-52, the spacing of the floats at 1.0)
Eps == Fin(0, <<0, 0, 0, 1024>>, -104)
\* 8.881784197001252e-16  (2^-50)
Eps4 == Fin(0, <<0, 0, 0, 1024>>, -102)

\* 0.05
A0_05 == Fin(0, <<6554, 9830, 6553, 1638>>, -57)
\* 0.01
A0_01 == Fin(0, <<5243, 7864, 11796, 1310>>, -59)
\* 0.25
A0_25 == Fin(0, <<0, 0, 0, 1024>>, -54)
\* 0.5
A0_5 == Fin(0, <<0, 0, 0, 1024>>, -53)
\* 0.95
A0_95 == Fin(0, <<9830, 6553, 9830, 1945>>, -53)
A0_1 == F0_1
\* 5.0
Df5 == Fin(0, <<0, 0, 0, 1280>>, -50)
Df2 == Two
Df1 == One
\* 0.5
Df0_5 == Fin(0, <<0, 0, 0, 1024>>, -53)
Df1_5 == F1_5

\* ------------------------------------------------------------------------
\* scipy.stats.norm and scipy.stats.t (the special-function library)
\*
\* The library is not part of the repository.  Its quantile and density are
\* tabulated at the arguments the model draws: each entry is the mathematical
\* value rounded to the nearest binary64 (the library's own result can differ
\* from it in the last places).  Outside the open interval (0,1) and for
\* df <= 0 the library's argument checks decide the result.
\* ------------------------------------------------------------------------
\* <<alpha, norm.ppf(alpha), norm.pdf(norm.ppf(alpha))>>
NormRows ==
  <<
    \* 0.05 -> -1.6448536269514726, 0.10313564037537132
    <<A0_05, Fin(1, <<10941, 9629, 5408, 1684>>, -52),
      Fin(0, <<6204, 10715, 12686, 1689>>, -56)>>,
    \* 0.01 -> -2.326347874040841, 0.026652142203458042
    <<A0_01, Fin(1, <<16143, 6339, 1476, 1191>>, -51),
      Fin(0, <<7623, 12829, 11055, 1746>>, -58)>>,
    \* 0.25 -> -0.6744897501960817, 0.3177765726841069
    <<A0_25, Fin(1, <<2633, 7498, 5816, 1381>>, -53),
      Fin(0, <<16069, 13084, 10040, 1301>>, -54)>>,
    \* 0.5 -> 0.0, 0.3989422804014327
    <<A0_5, Zero(0),
      Fin(0, <<13905, 3920, 1107, 1634>>, -54)>>,
    \* 0.95 -> 1.6448536269514722, 0.10313564037537139
    <<A0_95, Fin(0, <<10939, 9629, 5408, 1684>>, -52),
      Fin(0, <<6209, 10715, 12686, 1689>>, -56)>>,
    \* 0.1 -> -1.2815515655446004, 0.17549833193248682
    <<A0_1, Fin(1, <<11570, 7049, 5059, 1312>>, -52),
      Fin(0, <<2010, 6222, 11179, 1437>>, -55)>>
  >>

\* <<df, alpha, t.ppf(alpha, df), t.pdf(t.ppf(alpha, df), df)>>
StudentRows ==
  <<
    \* df 5.0, 0.05 -> -2.0150483733330242, 0.06379679889497472
    <<Df5, A0_05, Fin(1, <<5682, 14826, 11546, 1031>>, -51),
      Fin(0, <<10602, 13151, 4042, 1045>>, -56)>>,
    \* df 5.0, 0.01 -> -3.3649299989072188, 0.010910975291951024
    <<Df5, A0_01, Fin(1, <<5673, 11604, 13830, 1722>>, -51),
      Fin(0, <<937, 380, 2021, 1430>>, -59)>>,
    \* df 5.0, 0.25 -> -0.7266868438004227, 0.2808810118547409
    <<Df5, A0_25, Fin(1, <<3331, 4679, 4172, 1488>>, -53),
      Fin(0, <<12716, 10235, 8005, 1150>>, -54)>>,
    \* df 5.0, 0.5 -> 0.0, 0.37960668982249446
    <<Df5, A0_5, Zero(0),
      Fin(0, <<6390, 11809, 14237, 1554>>, -54)>>,
    \* df 5.0, 0.95 -> 2.0150483733330233, 0.0637967988949748
    <<Df5, A0_95, Fin(0, <<5680, 14826, 11546, 1031>>, -51),
      Fin(0, <<10608, 13151, 4042, 1045>>, -56)>>,
    \* df 5.0, 0.1 -> -1.475884048824481, 0.12828949200431738
    <<Df5, A0_1, Fin(1, <<14904, 7832, 5001, 1511>>, -52),
      Fin(0, <<7312, 2344, 15524, 1050>>, -55)>>,
    \* df 2.0, 0.05 -> -2.9199855803537256, 0.02928096651410264
    <<Df2, A0_05, Fin(1, <<2402, 6541, 534, 1495>>, -51),
      Fin(0, <<6696, 6444, 15686, 1918>>, -58)>>,
    \* df 2.0, 0.01 -> -6.964556734283274, 0.002786106961335117
    <<Df2, A0_01, Fin(1, <<2156, 2766, 15180, 1782>>, -50),
      Fin(0, <<9819, 9243, 11836, 1460>>, -61)>>,
    \* df 2.0, 0.25 -> -0.816496580927726, 0.22963966338592295
    <<Df2, A0_25, Fin(1, <<11326, 48, 3031, 1672>>, -53),
      Fin(0, <<12742, 14390, 3409, 1881>>, -55)>>,
    \* df 2.0, 0.5 -> 0.0, 0.3535533905932738
    <<Df2, A0_5, Zero(0),
      Fin(0, <<15309, 6652, 2534, 1448>>, -54)>>,
    \* df 2.0, 0.95 -> 2.9199855803537242, 0.029280966514102672
    <<Df2, A0_95, Fin(0, <<2399, 6541, 534, 1495>>, -51),
      Fin(0, <<6705, 6444, 15686, 1918>>, -58)>>,
    \* df 2.0, 0.1 -> -1.8856180831641267, 0.07636753236814714
    <<Df2, A0_1, Fin(1, <<14950, 14331, 14301, 1930>>, -52),
      Fin(0, <<5756, 6141, 3369, 1251>>, -56)>>,
    \* df 1.0, 0.05 -> -6.313751514675043, 0.0077895973637639405
    <<Df1, A0_05, Fin(1, <<9771, 3817, 5249, 1616>>, -50),
      Fin(0, <<11643, 15177, 16321, 2041>>, -60)>>,
    \* df 1.0, 0.01 -> -31.820515953773956, 0.00031405592470329445
    <<Df1, A0_01, Fin(1, <<3630, 5517, 8405, 2036>>, -48),
      Fin(0, <<13326, 13294, 4030, 1317>>, -64)>>,
    \* df 1.0, 0.25 -> -1.0, 0.15915494309189535
    <<Df1, A0_25, Fin(1, <<0, 0, 0, 1024>>, -52),
      Fin(0, <<2179, 14119, 13062, 1303>>, -55)>>,
    \* df 1.0, 0.5 -> 0.0, 0.3183098861837907
    <<Df1, A0_5, Zero(0),
      Fin(0, <<2179, 14119, 13062, 1303>>, -54)>>,
    \* df 1.0, 0.95 -> 6.313751514675038, 0.0077895973637639535
    <<Df1, A0_95, Fin(0, <<9765, 3817, 5249, 1616>>, -50),
      Fin(0, <<11658, 15177, 16321, 2041>>, -60)>>,
    \* df 1.0, 0.1 -> -3.077683537175253, 0.030395889391774376
    <<Df1, A0_1, Fin(1, <<6062, 12147, 12680, 1575>>, -51),
      Fin(0, <<9593, 11757, 409, 1992>>, -58)>>,
    \* df 0.5, 0.05 -> -41.13600009287827, 0.0006076324592229245
    <<Df0_5, A0_05, Fin(1, <<5411, 3550, 5767, 1316>>, -47),
      Fin(0, <<13478, 5288, 4876, 1274>>, -63)>>,
    \* df 0.5, 0.01 -> -1028.4910104716218, 4.8614898244584205e-06
    <<Df0_5, A0_01, Fin(1, <<13936, 11723, 8044, 1028>>, -42),
      Fin(0, <<5610, 5918, 16322, 1304>>, -70)>>,
    \* df 0.5, 0.25 -> -1.5537739740300374, 0.07189178286143534
    <<Df0_5, A0_25, Fin(1, <<7171, 9461, 1057, 1591>>, -52),
      Fin(0, <<12813, 8438, 14335, 1177>>, -56)>>,
    \* df 0.5, 0.5 -> 0.0, 0.2696763005941897
    <<Df0_5, A0_5, Zero(0),
      Fin(0, <<15194, 2958, 9734, 1104>>, -54)>>,
    \* df 0.5, 0.95 -> 41.136000092878206, 0.000607632459222926
    <<Df0_5, A0_95, Fin(0, <<5402, 3550, 5767, 1316>>, -47),
      Fin(0, <<13491, 5288, 4876, 1274>>, -63)>>,
    \* df 0.5, 0.1 -> -10.270324410234505, 0.00485460266947504
    <<Df0_5, A0_1, Fin(1, <<2318, 6186, 9855, 1314>>, -49),
      Fin(0, <<8091, 11476, 9911, 1272>>, -60)>>,
    \* df 1.5, 0.05 -> -3.7051808200967513, 0.01880243960532963
    <<Df1_5, A0_05, Fin(1, <<10227, 7682, 861, 1897>>, -51),
      Fin(0, <<14002, 13065, 3877, 1232>>, -58)>>,
    \* df 1.5, 0.01 -> -11.197316179568398, 0.0013282805274836273
    <<Df1_5, A0_01, Fin(1, <<12181, 337, 4202, 1433>>, -49),
      Fin(0, <<11008, 11498, 13157, 1392>>, -62)>>,
    \* df 1.5, 0.25 -> -0.8725946625415706, 0.20396418451144763
    <<Df1_5, A0_25, Fin(1, <<14186, 4387, 1210, 1787>>, -53),
      Fin(0, <<6101, 7184, 14329, 1670>>, -55)>>,
    \* df 1.5, 0.5 -> 0.0, 0.3407349812886936
    <<Df1_5, A0_5, Zero(0),
      Fin(0, <<15670, 8508, 10657, 1395>>, -54)>>,
    \* df 1.5, 0.95 -> 3.705180820096749, 0.018802439605329655
    <<Df1_5, A0_95, Fin(0, <<10222, 7682, 861, 1897>>, -51),
      Fin(0, <<14009, 13065, 3877, 1232>>, -58)>>,
    \* df 1.5, 0.1 -> -2.196398417565537, 0.056399690297160486
    <<Df1_5, A0_1, Fin(1, <<12522, 5517, 9109, 1124>>, -51),
      Fin(0, <<8939, 2725, 1721, 1848>>, -57)>>
  >>

InUnit(q) == FLt(Zero(0), q) /\ FLt(q, One)

\* the row of alpha, and the row whose quantile is x
NormRowOf(alpha) == NormRows[CHOOSE i \in 1..Len(NormRows) : NormRows[i][1] = alpha]
NormRowAt(x) == NormRows[CHOOSE i \in 1..Len(NormRows) : NormRows[i][2] = x]
StudentRowOf(df, alpha) ==
  StudentRows[CHOOSE i \in 1..Len(StudentRows) :
                StudentRows[i][1] = df /\ StudentRows[i][2] = alpha]
StudentRowAt(df, x) ==
  StudentRows[CHOOSE i \in 1..Len(StudentRows) :
                StudentRows[i][1] = df /\ StudentRows[i][3] = x]

\* rv_continuous.ppf: the quantile for 0 < q < 1, the ends of the support at
\* q = 0 and q = 1, nan for any other q and for invalid shape arguments
norm_ppf(q) ==
  IF InUnit(q) THEN NormRowOf(q)[2]
  ELSE IF FEq(q, Zero(0)) THEN Inf(1)
  ELSE IF FEq(q, One) THEN Inf(0)
  ELSE NaN

\* rv_continuous.pdf: exp(-x^2 / 2) / sqrt(2 pi), 0 at the infinities
norm_pdf(x) ==
  IF IsNaN(x) THEN NaN
  ELSE IF IsInf(x) THEN Zero(0)
  ELSE NormRowAt(x)[3]

\* the shape argument df must be > 0
t_ppf(q, df) ==
  IF IsNaN(df) \/ ~FLt(Zero(0), df) THEN NaN
  ELSE IF InUnit(q) THEN StudentRowOf(df, q)[3]
  ELSE IF FEq(q, Zero(0)) THEN Inf(1)
  ELSE IF FEq(q, One) THEN Inf(0)
  ELSE NaN

t_pdf(x, df) ==
  IF IsNaN(x) \/ IsNaN(df) \/ ~FLt(Zero(0), df) THEN NaN
  ELSE IF IsInf(x) THEN Zero(0)
  ELSE StudentRowAt(df, x)[4]

\* ------------------------------------------------------------------------
\* src/risk_metrics.py: the statements of the four functions
\* ------------------------------------------------------------------------
\* Mutants of line 23: the quantile term subtracted; the variance in place of
\* the standard deviation
compute_var_normal_minus(mu, sigma, alpha) == FSub(mu, FMul(sigma, norm_ppf(alpha)))
compute_var_normal_variance(mu, sigma, alpha) ==
  FAdd(mu, FMul(FMul(sigma, sigma), norm_ppf(alpha)))

\* line 23: return mu + sigma * norm.ppf(alpha)
compute_var_normal(mu, sigma, alpha) == FAdd(mu, FMul(sigma, norm_ppf(alpha)))

\* line 35: z = norm.ppf(alpha)
cvar_normal_z(alpha) == norm_ppf(alpha)

\* Mutant of line 36: the tail term added
cvar_normal_return_plus(mu, sigma, alpha, z) ==
  FAdd(mu, FMul(sigma, FDiv(norm_pdf(z), alpha)))

\* line 36: return mu - sigma * (norm.pdf(z) / alpha)
cvar_normal_return(mu, sigma, alpha, z) ==
  FSub(mu, FMul(sigma, FDiv(norm_pdf(z), alpha)))

compute_cvar_normal(mu, sigma, alpha) ==
  cvar_normal_return(mu, sigma, alpha, cvar_normal_z(alpha))

\* Mutant of line 51: the quantile term subtracted
compute_var_student_t_minus(df, loc, scale, alpha) ==
  FSub(loc, FMul(scale, t_ppf(alpha, df)))

\* line 51: return loc + scale * t.ppf(alpha, df)
compute_var_student_t(df, loc, scale, alpha) == FAdd(loc, FMul(scale, t_ppf(alpha, df)))

\* line 63: t_q = t.ppf(alpha, df)
cvar_student_t_t_q(df, alpha) == t_ppf(alpha, df)

\* line 64: density = t.pdf(t_q, df)
cvar_student_t_density(df, t_q) == t_pdf(t_q, df)

\* Mutant of line 65: the denominator df in place of df - 1
cvar_student_t_adjustment_df(df, t_q) == FDiv(FAdd(df, FMul(t_q, t_q)), df)

\* line 65: adjustment = (df + t_q**2) / (df - 1)
\* t_q is a numpy.float64, so is the numerator, and the division by df - 1 = 0
\* is numpy's: an infinity, not Python's ZeroDivisionError.
cvar_student_t_adjustment(df, t_q) ==
  FDiv(FAdd(df, FMul(t_q, t_q)), FSub(df, One))

\* Mutant of line 66: the tail term added
cvar_student_t_return_plus(loc, scale, alpha, density, adjustment) ==
  FAdd(loc, FMul(FMul(scale, FDiv(density, alpha)), adjustment))

\* line 66: return loc - scale * (density / alpha) * adjustment
cvar_student_t_return(loc, scale, alpha, density, adjustment) ==
  FSub(loc, FMul(FMul(scale, FDiv(density, alpha)), adjustment))

compute_cvar_student_t(df, loc, scale, alpha) ==
  LET t_q == cvar_student_t_t_q(df, alpha)
  IN  cvar_student_t_return(loc, scale, alpha,
                            cvar_student_t_density(df, t_q),
                            cvar_student_t_adjustment(df, t_q))

\* ------------------------------------------------------------------------
\* src/visualization.py: the VaR overlay of plot_histogram_with_fits
\* normal_params = (mu, sigma), t_params = (df, loc, scale); Python indexes
\* from 0, the tuples here from 1
\* ------------------------------------------------------------------------
\* line 34: var_n = normal_params[0] + normal_params[1] * norm.ppf(alpha)
plot_var_n(normal_params, alpha) ==
  FAdd(normal_params[1], FMul(normal_params[2], norm_ppf(alpha)))

\* Mutant of line 35: loc and scale taken in the other order
plot_var_t_swapped(t_params, alpha) ==
  FAdd(t_params[3], FMul(t_params[2], t_ppf(alpha, t_params[1])))

\* line 35: var_t = t_params[1] + t_params[2] * t.ppf(alpha, t_params[0])
plot_var_t(t_params, alpha) ==
  FAdd(t_params[2], FMul(t_params[3], t_ppf(alpha, t_params[1])))

\* ------------------------------------------------------------------------
\* The callers: each thread calls one function and runs it line by line
\* ------------------------------------------------------------------------
Threads == {1, 2}
Locals == {"z", "t_q", "density", "adjustment", "var_n", "var_t"}

\* a name that is not bound yet
Unbound == [k |-> "unbound", s |-> 0, m |-> <<>>, e |-> 0]
\* the exception of the specification's error taxonomy; no statement of
\* src/risk_metrics.py raises it, or anything else
InvalidParameter == [k |-> "InvalidParameter", s |-> 0, m |-> <<>>, e |-> 0]

VARIABLES
  pc,     \* pc[t]: "idle", the line thread t is about to run, or "done"
  fn,     \* fn[t]: the function thread t called
  args,   \* args[t]: its arguments, in the order of the signature
  frame,  \* frame[t]: the local variables of the call
  ret,    \* ret[t]: the value returned
  calls,  \* calls[t]: the library calls made so far, in order
  fig     \* fig[t]: the x positions of the vertical lines drawn on the figure

vars == <<pc, fn, args, frame, ret, calls, fig>>

\* Mutant of the binding of locals: one frame shared by every call, as
\* module-level variables would be
SlotShared(t) == 1

\* The frame a call of thread t binds its locals in: its own
Slot(t) == t

Init ==
  /\ pc = [t \in Threads |-> "idle"]
  /\ fn = [t \in Threads |-> "none"]
  /\ args = [t \in Threads |-> <<>>]
  /\ frame = [t \in Threads |-> [v \in Locals |-> Unbound]]
  /\ ret = [t \in Threads |-> Unbound]
  /\ calls = [t \in Threads |-> <<>>]
  /\ fig = [t \in Threads |-> <<>>]

Call(t, f, a, first) ==
  /\ pc[t] = "idle"
  /\ pc' = [pc EXCEPT ![t] = first]
  /\ fn' = [fn EXCEPT ![t] = f]
  /\ args' = [args EXCEPT ![t] = a]
  /\ UNCHANGED <<frame, ret, calls, fig>>

Bind(t, v, x, lib, next) ==
  /\ frame' = [frame EXCEPT ![Slot(t)][v] = x]
  /\ calls' = [calls EXCEPT ![t] = @ \o lib]
  /\ pc' = [pc EXCEPT ![t] = next]
  /\ UNCHANGED <<fn, args, ret, fig>>

Return(t, x, lib) ==
  /\ ret' = [ret EXCEPT ![t] = x]
  /\ calls' = [calls EXCEPT ![t] = @ \o lib]
  /\ pc' = [pc EXCEPT ![t] = "done"]
  /\ UNCHANGED <<fn, args, frame, fig>>

Local(t, v) == frame[Slot(t)][v]

\* compute_var_normal(mu, sigma, alpha)
Call_compute_var_normal(t, G) ==
  \E mu \in G.loc, sigma \in G.scale, alpha \in G.alpha :
    Call(t, "compute_var_normal", <<mu, sigma, alpha>>, "rm23")

Line23(t) ==
  /\ pc[t] = "rm23"
  /\ Return(t, compute_var_normal(args[t][1], args[t][2], args[t][3]), <<"norm.ppf">>)

\* compute_cvar_normal(mu, sigma, alpha)
Call_compute_cvar_normal(t, G) ==
  \E mu \in G.loc, sigma \in G.scale, alpha \in G.alpha :
    Call(t, "compute_cvar_normal", <<mu, sigma, alpha>>, "rm35")

Line35(t) ==
  /\ pc[t] = "rm35"
  /\ Bind(t, "z", cvar_normal_z(args[t][3]), <<"norm.ppf">>, "rm36")

Line36(t) ==
  /\ pc[t] = "rm36"
  /\ Return(t, cvar_normal_return(args[t][1], args[t][2], args[t][3], Local(t, "z")),
            <<"norm.pdf">>)

\* compute_var_student_t(df, loc, scale, alpha)
Call_compute_var_student_t(t, G) ==
  \E df \in G.df, loc \in G.loc, scale \in G.scale, alpha \in G.alpha :
    Call(t, "compute_var_student_t", <<df, loc, scale, alpha>>, "rm51")

Line51(t) ==
  /\ pc[t] = "rm51"
  /\ Return(t, compute_var_student_t(args[t][1], args[t][2], args[t][3], args[t][4]),
            <<"t.ppf">>)

\* compute_cvar_student_t(df, loc, scale, alpha)
Call_compute_cvar_student_t(t, G) ==
  \E df \in G.df, loc \in G.loc, scale \in G.scale, alpha \in G.alpha :
    Call(t, "compute_cvar_student_t", <<df, loc, scale, alpha>>, "rm63")

Line63(t) ==
  /\ pc[t] = "rm63"
  /\ Bind(t, "t_q", cvar_student_t_t_q(args[t][1], args[t][4]), <<"t.ppf">>, "rm64")

Line64(t) ==
  /\ pc[t] = "rm64"
  /\ Bind(t, "density", cvar_student_t_density(args[t][1], Local(t, "t_q")),
          <<"t.pdf">>, "rm65")

Line65(t) ==
  /\ pc[t] = "rm65"
  /\ Bind(t, "adjustment", cvar_student_t_adjustment(args[t][1], Local(t, "t_q")),
          <<>>, "rm66")

Line66(t) ==
  /\ pc[t] = "rm66"
  /\ Return(t, cvar_student_t_return(args[t][2], args[t][3], args[t][4],
                                     Local(t, "density"), Local(t, "adjustment")),
            <<>>)

\* plot_histogram_with_fits(returns, normal_params, t_params, alpha).  Lines
\* 27-32 draw the histogram and the two fitted curves from `returns`; the
\* overlay reads neither, and they are left out.
Call_plot_histogram_with_fits(t, G) ==
  \E mu \in G.loc, sigma \in G.scale, df \in G.df, loc \in G.loc,
     scale \in G.scale, alpha \in G.alpha :
    Call(t, "plot_histogram_with_fits", <<<<mu, sigma>>, <<df, loc, scale>>, alpha>>, "viz34")

Viz34(t) ==
  /\ pc[t] = "viz34"
  /\ Bind(t, "var_n", plot_var_n(args[t][1], args[t][3]), <<"norm.ppf">>, "viz35")

Viz35(t) ==
  /\ pc[t] = "viz35"
  /\ Bind(t, "var_t", plot_var_t(args[t][2], args[t][3]), <<"t.ppf">>, "viz37")

\* lines 37-42: ax.axvline(var_n), ax.axvline(var_t), return fig
Viz37(t) ==
  /\ pc[t] = "viz37"
  /\ fig' = [fig EXCEPT ![t] = <<Local(t, "var_n"), Local(t, "var_t")>>]
  /\ pc' = [pc EXCEPT ![t] = "done"]
  /\ UNCHANGED <<fn, args, frame, ret, calls>>

\* ------------------------------------------------------------------------
\* The arguments drawn
\* ------------------------------------------------------------------------
\* tail probabilities in (0,1), and how many of them are drawn
AlphaList == <<A0_05, A0_01, A0_25, A0_5, A0_95, A0_1>>
NAlpha == 5
\* degrees of freedom > 0, and how many of them are drawn
DfList == <<Df5, Df2, Df1, Df0_5, Df1_5>>
NDf == 4

\* One caller: well-formed and ill-formed arguments
Wide ==
  [loc   |-> {Zero(0), F0_001, One},
   scale |-> {One, F0_1, F1em17, Zero(0), MinusOne},
   alpha |-> {AlphaList[i] : i \in 1..NAlpha} \cup {Zero(0), One, F1_5},
   df    |-> {DfList[i] : i \in 1..NDf} \cup {Zero(0), MinusOne}]

\* The figure's fits
Fits ==
  [loc   |-> {F0_001, One},
   scale |-> {F0_1, F1em17},
   alpha |-> {A0_05, A0_01, F1_5},
   df    |-> {Df5, Df0_5}]

\* Two concurrent callers
Narrow ==
  [loc   |-> {Zero(0)},
   scale |-> {One, F0_1},
   alpha |-> {A0_05, A0_01},
   df    |-> {Df5, Df2}]

Step(t) ==
  \/ Line23(t)
  \/ Line35(t)
  \/ Line36(t)
  \/ Line51(t)
  \/ Line63(t)
  \/ Line64(t)
  \/ Line65(t)
  \/ Line66(t)

Next ==
  \/ Call_compute_var_normal(1, Wide)
  \/ Call_compute_cvar_normal(1, Wide)
  \/ Call_compute_var_student_t(1, Wide)
  \/ Call_compute_cvar_student_t(1, Wide)
  \/ Call_plot_histogram_with_fits(1, Fits)
  \/ Step(1)
  \/ Viz34(1)
  \/ Viz35(1)
  \/ Viz37(1)

Spec == Init /\ [][Next]_vars

NextConc ==
  \E t \in Threads :
    \/ Call_compute_var_normal(t, Narrow)
    \/ Call_compute_cvar_normal(t, Narrow)
    \/ Call_compute_var_student_t(t, Narrow)
    \/ Call_compute_cvar_student_t(t, Narrow)
    \/ Step(t)

SpecConc == Init /\ [][NextConc]_vars

\* ------------------------------------------------------------------------
\* Properties
\* ------------------------------------------------------------------------
FAbs(a) == IF IsNaN(a) THEN NaN ELSE [a EXCEPT !.s = 0]
Pos(a) == FLt(Zero(0), a)
ValidAlphas == {AlphaList[i] : i \in 1..NAlpha}

Engine ==
  {"compute_var_normal", "compute_cvar_normal",
   "compute_var_student_t", "compute_cvar_student_t"}
Student == {"compute_var_student_t", "compute_cvar_student_t"}

Done(t, f) == pc[t] = "done" /\ fn[t] = f
Returned(t) == pc[t] = "done" /\ fn[t] \in Engine

\* the arguments of a finished call, by name
ArgLoc(t) == IF fn[t] \in Student THEN args[t][2] ELSE args[t][1]
ArgScale(t) == IF fn[t] \in Student THEN args[t][3] ELSE args[t][2]
ArgAlpha(t) == IF fn[t] \in Student THEN args[t][4] ELSE args[t][3]
ArgDf(t) == args[t][1]

\* the function f run alone on the arguments a
Apply(f, a) ==
  CASE f = "compute_var_normal" -> compute_var_normal(a[1], a[2], a[3])
    [] f = "compute_cvar_normal" -> compute_cvar_normal(a[1], a[2], a[3])
    [] f = "compute_var_student_t" -> compute_var_student_t(a[1], a[2], a[3], a[4])
    [] f = "compute_cvar_student_t" -> compute_cvar_student_t(a[1], a[2], a[3], a[4])

WithAlpha(f, a, alpha) ==
  IF f \in Student THEN <<a[1], a[2], a[3], alpha>> ELSE <<a[1], a[2], alpha>>

\* C1: compute_cvar_student_t fails with InvalidParameter, and returns no
\* number, whenever degreesOfFreedom <= 1.
C1_CVaRStudentTRejectsLowDf ==
  \A t \in Threads :
    (Done(t, "compute_cvar_student_t") /\ FLe(ArgDf(t), One))
      => ret[t] = InvalidParameter

\* C2: each of the four operations fails with InvalidParameter when its
\* stddev/scale is <= 0 or alpha is outside (0,1), compute_var_student_t also
\* when degreesOfFreedom <= 0, and it fails before any library call is made.
BadArguments(t) ==
  \/ FLe(ArgScale(t), Zero(0))
  \/ ~InUnit(ArgAlpha(t))
  \/ fn[t] = "compute_var_student_t" /\ FLe(ArgDf(t), Zero(0))

C2_RejectsBadArguments ==
  \A t \in Threads :
    (Returned(t) /\ BadArguments(t))
      => (ret[t] = InvalidParameter /\ calls[t] = <<>>)

\* C3: for degreesOfFreedom > 1, scale > 0 and alpha in (0,1) the value
\* returned by compute_cvar_student_t is exactly
\* location - scale * (density / alpha) * adjust with q = t.ppf(alpha, df),
\* density = t.pdf(q, df) and adjust = (df + q^2) / (df - 1).
WellFormedStudent(t) ==
  FLt(One, ArgDf(t)) /\ Pos(ArgScale(t)) /\ InUnit(ArgAlpha(t))

C3_CVaRStudentTFormula ==
  \A t \in Threads :
    (Done(t, "compute_cvar_student_t") /\ WellFormedStudent(t))
      => LET q       == t_ppf(ArgAlpha(t), ArgDf(t))
             density == t_pdf(q, ArgDf(t))
             adjust  == FDiv(FAdd(ArgDf(t), FMul(q, q)), FSub(ArgDf(t), One))
         IN  ret[t] = FSub(ArgLoc(t),
                           FMul(FMul(ArgScale(t), FDiv(density, ArgAlpha(t))), adjust))

C3_Witness ==
  \E t \in Threads :
    /\ Done(t, "compute_cvar_student_t")
    /\ WellFormedStudent(t)
    /\ IsFinite(ret[t])
    /\ FLt(ret[t], ArgLoc(t))

\* C4: for stddev > 0 and 0 < alpha < 0.5 the value of compute_cvar_normal is
\* at most that of compute_var_normal on the same arguments.
LeftTail(t) == Pos(ArgScale(t)) /\ Pos(ArgAlpha(t)) /\ FLt(ArgAlpha(t), A0_5)

C4_CVaRNormalAtMostVaR ==
  \A t \in Threads :
    (Done(t, "compute_cvar_normal") /\ LeftTail(t))
      => FLe(ret[t], compute_var_normal(args[t][1], args[t][2], args[t][3]))

C4_Witness ==
  \E t \in Threads :
    /\ Done(t, "compute_cvar_normal")
    /\ LeftTail(t)
    /\ FLt(ret[t], compute_var_normal(args[t][1], args[t][2], args[t][3]))

C6_VaRNormalStrictlyBelowMean ==
  \A t \in Threads :
    (Done(t, "compute_var_normal") /\ LeftTail(t)) => FLt(ret[t], ArgLoc(t))

\* C6, amended: for stddev > 0 and 0 < alpha < 0.5 the value of
\* compute_var_normal is never above mean, and it is strictly below mean
\* whenever the product stddev * norm.ppf(alpha) is not zero and is at least
\* 2^-52 * |mean| in magnitude (a smaller product is absorbed by the addition).
C6_VaRNormalNotAboveMean ==
  \A t \in Threads :
    (Done(t, "compute_var_normal") /\ LeftTail(t))
      => LET p == FMul(ArgScale(t), norm_ppf(ArgAlpha(t)))
         IN  /\ FLe(ret[t], ArgLoc(t))
             /\ (~IsZero(p) /\ FLe(FMul(Eps, FAbs(ArgLoc(t))), FAbs(p)))
                  => FLt(ret[t], ArgLoc(t))

C6_Witness ==
  \E t \in Threads :
    /\ Done(t, "compute_var_normal")
    /\ LeftTail(t)
    /\ ~IsZero(ArgLoc(t))
    /\ FLt(ret[t], ArgLoc(t))

\* C7: with location 0, scale > 0 (and degreesOfFreedom > 1 for Student-t)
\* held fixed, each of the four operations returns a strictly smaller value at
\* alpha1 than at alpha2 for tail probabilities alpha1 < alpha2 in (0,1).
MonotoneCase(t) ==
  /\ Returned(t)
  /\ IsZero(ArgLoc(t))
  /\ Pos(ArgScale(t))
  /\ InUnit(ArgAlpha(t))
  /\ (fn[t] \in Student => FLt(One, ArgDf(t)))

Factors == {Two, Three}

ScaleCase(t) ==
  /\ Done(t, "compute_var_normal")
  /\ IsZero(ArgLoc(t))
  /\ Pos(ArgScale(t))
  /\ InUnit(ArgAlpha(t))

Scaled(t, k) == compute_var_normal(Zero(0), FMul(k, ArgScale(t)), ArgAlpha(t))

C8_ScaleInvarianceExact ==
  \A t \in Threads :
    ScaleCase(t) => \A k \in Factors : FEq(Scaled(t, k), FMul(k, ret[t]))

\* C8, amended: the two sides agree to within a relative difference of 2^-50
\* (the roundings of the two multiplications on each side), and they are equal
\* when k is a power of two.
IsPowerOfTwo(k) == k.k = "fin" /\ k.m = One.m

C8_ScaleInvarianceRounded ==
  \A t \in Threads :
    ScaleCase(t)
      => \A k \in Factors :
           LET l == Scaled(t, k)
               r == FMul(k, ret[t])
           IN  /\ FLe(FAbs(FSub(l, r)), FMul(Eps4, FAbs(r)))
               /\ IsPowerOfTwo(k) => FEq(l, r)

C8_Witness ==
  \E t \in Threads :
    /\ ScaleCase(t)
    /\ ~FEq(Scaled(t, Three), FMul(Three, ret[t]))
    /\ FLe(FAbs(FSub(Scaled(t, Three), FMul(Three, ret[t]))),
           FMul(Eps4, FAbs(FMul(Three, ret[t]))))

C10_OverlayAgreesWithEngine ==
  \A t \in Threads :
    Done(t, "plot_histogram_with_fits")
      => LET normal_params == args[t][1]
             t_params      == args[t][2]
             alpha         == args[t][3]
         IN  fig[t] = <<compute_var_normal(normal_params[1], normal_params[2], alpha),
                        compute_var_student_t(t_params[1], t_params[2], t_params[3], alpha)>>

C10_Witness ==
  \E t \in Threads :
    /\ Done(t, "plot_histogram_with_fits")
    /\ Len(fig[t]) = 2
    /\ IsFinite(fig[t][1])
    /\ IsFinite(fig[t][2])
    /\ ~FEq(fig[t][1], fig[t][2])

====
